---- MODULE Spec2Model ----
(***************************************************************************)
(* Movie Recommender API (src/app.py): the trending-movies cache kept in   *)
(* the document store, the interaction log, and the four HTTP routes, run  *)
(* by one event loop.  Coroutine handlers (async def) contain no await, so *)
(* each one occupies the event loop from its first line to its return;     *)
(* plain handlers (def) run their body on a worker thread, and are         *)
(* dispatched and answered by the event loop.                              *)
(***************************************************************************)
EXTENDS Integers, Sequences, FiniteSets, Bags, TLC

(* ---------------------------------------------------------------------- *)
(* Bounds of the model                                                     *)
(* ---------------------------------------------------------------------- *)
MaxReqs == 2        \* requests that can be in flight together
MaxTicks == 2       \* forward steps of the wall clock
MaxLog == 2         \* records the interaction log can hold
StartTime == 90000  \* wall-clock reading (seconds) when the server starts
BackStep == 3600    \* size of the one backward step of the wall clock

(* ---------------------------------------------------------------------- *)
(* Program constants                                                       *)
(* ---------------------------------------------------------------------- *)
CACHE_DURATION == 86400


\* Steps the wall clock can take between two events: half a freshness
\* window, so that two steps make an age of exactly CACHE_DURATION.
ClockSteps == {CACHE_DURATION \div 2}

\* Result lists the TMDB endpoint can answer with (opaque movie records).
FetchResults == {<<>>, <<"m1">>, <<"m2", "m1">>}
\* requests.RequestException texts (transport failure, non-2xx status).
UpstreamErrors == {"503 Server Error"}
\* Exceptions the store client raises.
StoreErrors == {"store unavailable"}

(* ---------------------------------------------------------------------- *)
(* datetime <-> ISO string.  A datetime is a number of seconds; its ISO    *)
(* text is the pair <<date, time of day>>.                                 *)
(* ---------------------------------------------------------------------- *)
isoformat(t) == <<t \div 86400, t % 86400>>

fromisoformat(s) == s[1] * 86400 + s[2]

\* str.__bool__ of a timestamp read from a document: None and "" are falsy.
NoStamp == <<>>

(* ---------------------------------------------------------------------- *)
(* The cache document at cache/trending_movies                             *)
(* ---------------------------------------------------------------------- *)
NoDoc == [exists |-> FALSE, has_movies |-> FALSE, movies |-> <<>>, timestamp |-> NoStamp]

\* CacheDoc without the "timestamp" entry of line 113.
CacheDocNoStamp(movies, stamp) ==
  [exists |-> TRUE, has_movies |-> TRUE, movies |-> movies, timestamp |-> NoStamp]

\* The dict of lines 111-114.
CacheDoc(movies, stamp) ==
  [exists |-> TRUE, has_movies |-> TRUE, movies |-> movies, timestamp |-> stamp]

\* cache_doc.get("movies", [])
DocMovies(doc) == IF doc.has_movies THEN doc.movies ELSE <<>>

\* (datetime.now() - cached_datetime).total_seconds()
Age(doc, t) == t - fromisoformat(doc.timestamp)

\* IsFresh with the comparison of line 107 turned round.
IsFreshTurned(doc, t) ==
  /\ doc.exists
  /\ doc.timestamp # NoStamp
  /\ Age(doc, t) > CACHE_DURATION

\* IsFresh with <= for the < of line 107.
IsFreshInclusive(doc, t) ==
  /\ doc.exists
  /\ doc.timestamp # NoStamp
  /\ Age(doc, t) <= CACHE_DURATION

\* IsFresh taking a document without a timestamp for a fresh one.
IsFreshUnstamped(doc, t) ==
  /\ doc.exists
  /\ (doc.timestamp = NoStamp \/ Age(doc, t) < CACHE_DURATION)

\* IsFresh refusing a timestamp that lies ahead of the clock.
IsFreshPast(doc, t) ==
  /\ doc.exists
  /\ doc.timestamp # NoStamp
  /\ Age(doc, t) >= 0
  /\ Age(doc, t) < CACHE_DURATION

\* IsFresh asking for a list that is not empty as well.
IsFreshNonEmpty(doc, t) ==
  /\ doc.exists
  /\ doc.timestamp # NoStamp
  /\ Age(doc, t) < CACHE_DURATION
  /\ DocMovies(doc) # <<>>

\* Lines 102-107: the three nested conditions that lead to line 108.
IsFresh(doc, t) ==
  /\ doc.exists
  /\ doc.timestamp # NoStamp
  /\ Age(doc, t) < CACHE_DURATION

(* ---------------------------------------------------------------------- *)
(* HTTP responses                                                          *)
(* ---------------------------------------------------------------------- *)
NoResp == [status |-> 0, kind |-> "none", movies |-> <<>>, detail |-> <<>>, key |-> 0, timestamp |-> NoStamp]

\* 200 with a JSON list of movies (response_model=List[Dict]).
MoviesResp(m) == [NoResp EXCEPT !.status = 200, !.kind = "movies", !.movies = m]

\* HTTPException(status_code=500, detail=f"<prefix>{str(e)}")
ErrorResp(prefix, e) == [NoResp EXCEPT !.status = 500, !.kind = "detail", !.detail = <<prefix, e>>]

\* An exception no handler catches: the framework's bare 500.
UnhandledResp == [NoResp EXCEPT !.status = 500, !.kind = "unhandled", !.detail = <<"Internal Server Error">>]

\* FetchErrorResp raising an exception that is no HTTPException.
FetchErrorRespBare(e) == UnhandledResp

\* fetch_trending_movies, line 92.
FetchErrorResp(e) == ErrorResp("Error fetching TMDB data: ", e)

\* HealthResp with the timestamp taken once, when the server started.
HealthRespAtStart(stamp) == [NoResp EXCEPT !.status = 200, !.kind = "health", !.detail = <<"healthy">>, !.timestamp = isoformat(StartTime)]

\* health_check, line 130.
HealthResp(stamp) == [NoResp EXCEPT !.status = 200, !.kind = "health", !.detail = <<"healthy">>, !.timestamp = stamp]

\* read_root, line 123.
RootResp == [NoResp EXCEPT !.status = 200, !.kind = "root", !.detail = <<"active", "Movie Recommender API is running">>]

\* track_interaction, lines 161-165.
TrackedResp(k) == [NoResp EXCEPT !.status = 200, !.kind = "tracked", !.detail = <<"success", "Interaction tracked successfully">>, !.key = k]

\* track_interaction, lines 166-170.
TrackErrorResp(e) == ErrorResp("Error tracking interaction: ", e)

\* The framework's answer to a body that does not validate.
ValidationResp == [NoResp EXCEPT !.status = 422, !.kind = "validation", !.detail = <<"validation error">>]

(* ---------------------------------------------------------------------- *)
(* JSON bodies of POST /track and their validation against                 *)
(* InteractionEvent.  A JSON value is absent, an integer or a string; a    *)
(* string is the sequence of its characters.                               *)
(* ---------------------------------------------------------------------- *)
JMissing == [type |-> "missing", n |-> 0, s |-> <<>>]
JInt(n) == [type |-> "int", n |-> n, s |-> <<>>]
JStr(s) == [type |-> "str", n |-> 0, s |-> s]

Digits == <<"0", "1", "2", "3", "4", "5", "6", "7", "8", "9">>
IsDigit(c) == \E d \in 1..10 : Digits[d] = c
DigitVal(c) == (CHOOSE d \in 1..10 : Digits[d] = c) - 1

\* int("12"): the decimal value of a string of digits.
RECURSIVE ParseInt(_)
ParseInt(s) ==
  IF s = <<>> THEN 0
  ELSE 10 * ParseInt(SubSeq(s, 1, Len(s) - 1)) + DigitVal(s[Len(s)])

IsNumeric(s) == s # <<>> /\ \A i \in 1..Len(s) : IsDigit(s[i])

\* A field declared `str`.
ValidStr(v) == v.type = "str"

\* A field declared `int`: an integer, or a string that int() parses.
ValidInt(v) == v.type = "int" \/ (v.type = "str" /\ IsNumeric(v.s))
CoerceInt(v) == IF v.type = "int" THEN v.n ELSE ParseInt(v.s)

\* Validates with user_id optional.
ValidatesNoUser(body) ==
  /\ ValidStr(body.event_type)
  /\ ValidInt(body.movie_id)
  /\ ValidStr(body.timestamp)

\* InteractionEvent / EventData, lines 16-23.
Validates(body) ==
  /\ ValidStr(body.user_id)
  /\ ValidStr(body.event_type)
  /\ ValidInt(body.movie_id)
  /\ ValidStr(body.timestamp)

NoData == [user_id |-> <<>>, event_type |-> <<>>, event_data |-> [movie_id |-> 0], timestamp |-> <<>>, created_at |-> NoStamp]

\* interaction_data, lines 150-156, from the validated event.
InteractionData(body, t) ==
  [user_id |-> body.user_id.s,
   event_type |-> body.event_type.s,
   event_data |-> [movie_id |-> CoerceInt(body.movie_id)],
   timestamp |-> body.timestamp.s,
   created_at |-> isoformat(t)]

NoBody == [user_id |-> JMissing, event_type |-> JMissing, movie_id |-> JMissing, timestamp |-> JMissing]

Body(u, m) == [user_id |-> u, event_type |-> JStr(<<"c", "l", "i", "c", "k">>), movie_id |-> m, timestamp |-> JStr(<<"t", "0">>)]

\* Bodies clients send to POST /track.
Bodies ==
  { Body(JStr(<<"u", "1">>), JInt(12)),
    Body(JStr(<<"u", "1">>), JStr(<<"1", "2">>)),
    Body(JStr(<<"u", "1">>), JStr(<<"a", "b">>)),
    Body(JMissing, JInt(12)) }

(* ---------------------------------------------------------------------- *)
(* State                                                                   *)
(* ---------------------------------------------------------------------- *)
VARIABLES
  now,           \* datetime.now(): the server's wall clock, in seconds
  ticks,         \* forward clock steps taken
  fellBack,      \* the wall clock has taken its backward step
  entries,       \* the documents under cache/, by path
  interactions,  \* the documents under interactions/, by generated key
  loop,          \* the request whose coroutine occupies the event loop
  waiting,       \* the other requests in flight: not yet started, or on a
                 \* worker thread, or waiting for the loop to send the reply
  last           \* the request the last step answered, as it ended

vars == <<now, ticks, fellBack, entries, interactions, loop, waiting, last>>

\* db.reference("cache/trending_movies"), line 98.
CachePath == <<"cache", "trending_movies">>

\* reference(path).get(): the document at the path, None if there is none.
GetAt(store, path) == IF path \in DOMAIN store THEN store[path] ELSE NoDoc

\* SetAt adding the document under a key of its own below the path (push()
\* for set()).
AppendAt(store, path, doc) ==
  [p \in DOMAIN store \cup {path \o <<"v">>} |-> IF p = path \o <<"v">> THEN doc ELSE store[p]]

\* reference(path).set(doc): the document at the path is replaced by doc.
SetAt(store, path, doc) ==
  [p \in DOMAIN store \cup {path} |-> IF p = path THEN doc ELSE store[p]]

\* The document at cache/trending_movies.
cache == GetAt(entries, CachePath)

Routes == {"/", "/health", "/trending-movies", "/track"}

\* A request: its route, its position, and the handler's local variables.
IdleReq ==
  [route |-> "/", pc |-> "idle", arrived |-> 0, body |-> NoBody,
   before |-> NoDoc, cache_doc |-> NoDoc, checked |-> 0, movies |-> <<>>,
   stamp |-> NoStamp, data |-> NoData, resp |-> NoResp, error |-> "",
   fetches |-> 0, writes |-> 0, pushes |-> 0, set_back |-> FALSE]

InFlight == BagCardinality(waiting) + (IF loop.pc = "idle" THEN 0 ELSE 1)

Waiting == BagToSet(waiting)

Init ==
  /\ now = StartTime
  /\ ticks = 0
  /\ fellBack = FALSE
  /\ entries = <<>>
  /\ interactions = <<>>
  /\ loop = IdleReq
  /\ waiting = EmptyBag
  /\ last = IdleReq

(* ---------------------------------------------------------------------- *)
(* The wall clock                                                          *)
(* ---------------------------------------------------------------------- *)
Tick(d) ==
  /\ ticks < MaxTicks
  /\ now' = now + d
  /\ ticks' = ticks + 1
  /\ last' = IdleReq
  /\ UNCHANGED <<fellBack, entries, interactions, loop, waiting>>

\* A request in flight when the clock is set back.
SetBack(rq) == [rq EXCEPT !.set_back = TRUE]

\* datetime.now() is naive local time: it is set back once (end of DST).
FallBack ==
  /\ ~fellBack
  /\ now' = now - BackStep
  /\ fellBack' = TRUE
  /\ loop' = IF loop.pc = "idle" THEN loop ELSE SetBack(loop)
  /\ waiting' = BagOfAll(SetBack, waiting)
  /\ last' = IdleReq
  /\ UNCHANGED <<ticks, entries, interactions>>

(* ---------------------------------------------------------------------- *)
(* Requests                                                                *)
(* ---------------------------------------------------------------------- *)
Without(rq) == waiting (-) SetToBag({rq})
With(bag, rq) == bag (+) SetToBag({rq})

\* A client's request reaches the server socket.
Arrive(route, body) ==
  /\ InFlight < MaxReqs
  /\ (route = "/track") = (body # NoBody)
  /\ waiting' = With(waiting, [IdleReq EXCEPT !.route = route, !.pc = "arrived",
                                              !.arrived = now, !.body = body])
  /\ last' = IdleReq
  /\ UNCHANGED <<now, ticks, fellBack, entries, interactions, loop>>

\* The request is answered.
Answer(rec, resp) == last' = [rec EXCEPT !.pc = "done", !.resp = resp]

(* ------------------------- GET /trending-movies ------------------------ *)
\* get_trending_movies, lines 132-137: the event loop runs the coroutine up
\* to cache_ref.get() (line 100), a blocking call.
StartTrending(rq) ==
  /\ loop.pc = "idle"
  /\ rq.pc = "arrived"
  /\ rq.route = "/trending-movies"
  /\ loop' = [rq EXCEPT !.pc = "read", !.before = cache]
  /\ waiting' = Without(rq)
  /\ last' = IdleReq
  /\ UNCHANGED <<now, ticks, fellBack, entries, interactions>>

\* Lines 100-108: cache_ref.get() returns the document; a fresh one is
\* returned, anything else goes on to fetch_trending_movies().
ReadCache ==
  /\ loop.pc = "read"
  /\ LET rec == [loop EXCEPT !.cache_doc = cache, !.checked = now]
     IN IF IsFresh(cache, now)
          THEN /\ Answer(rec, MoviesResp(DocMovies(cache)))
               /\ loop' = IdleReq
          ELSE /\ loop' = [rec EXCEPT !.pc = "fetch"]
               /\ last' = IdleReq
  /\ UNCHANGED <<now, ticks, fellBack, entries, interactions, waiting>>

\* Line 100 raises: nothing catches it.
ReadFails ==
  /\ loop.pc = "read"
  /\ Answer(loop, UnhandledResp)
  /\ loop' = IdleReq
  /\ UNCHANGED <<now, ticks, fellBack, entries, interactions, waiting>>

\* fetch_trending_movies returns data.get("results", []) (lines 87-90); the
\* dict of lines 111-114 is built with datetime.now().isoformat().
FetchOk(results) ==
  /\ loop.pc = "fetch"
  /\ loop' = [loop EXCEPT !.pc = "write", !.movies = results,
                          !.stamp = isoformat(now), !.fetches = loop.fetches + 1]
  /\ last' = IdleReq
  /\ UNCHANGED <<now, ticks, fellBack, entries, interactions, waiting>>

\* OnFetchError falling back to the document read at line 100.
OnFetchErrorServeStale(doc, e) ==
  IF doc.exists THEN MoviesResp(DocMovies(doc)) ELSE FetchErrorResp(e)

\* Line 110 has no try: the HTTPException of line 92 leaves
\* get_cached_trending_movies whatever cache_doc holds.
OnFetchError(doc, e) == FetchErrorResp(e)

\* fetch_trending_movies raises HTTPException(500) (lines 91-92).
FetchFails(e) ==
  /\ loop.pc = "fetch"
  /\ Answer([loop EXCEPT !.fetches = loop.fetches + 1, !.error = e],
            OnFetchError(loop.cache_doc, e))
  /\ loop' = IdleReq
  /\ UNCHANGED <<now, ticks, fellBack, entries, interactions, waiting>>

\* WriteCache writing the movies alone, the timestamp in a call of its own
\* that another request's write can precede.
WriteCacheMoviesOnly ==
  /\ loop.pc = "write"
  /\ entries' = SetAt(entries, CachePath,
                      IF cache.exists THEN [cache EXCEPT !.has_movies = TRUE, !.movies = loop.movies]
                                      ELSE CacheDoc(loop.movies, loop.stamp))
  /\ Answer([loop EXCEPT !.writes = loop.writes + 1], MoviesResp(loop.movies))
  /\ loop' = IdleReq
  /\ UNCHANGED <<now, ticks, fellBack, interactions, waiting>>

\* cache_ref.set(...) lands (lines 111-114) and the list is returned (115).
WriteCache ==
  /\ loop.pc = "write"
  /\ entries' = SetAt(entries, CachePath, CacheDoc(loop.movies, loop.stamp))
  /\ Answer([loop EXCEPT !.writes = loop.writes + 1], MoviesResp(loop.movies))
  /\ loop' = IdleReq
  /\ UNCHANGED <<now, ticks, fellBack, interactions, waiting>>

\* WriteFails with the failure of cache_ref.set(...) caught and the fetched
\* list returned all the same.
WriteFailsServed ==
  /\ loop.pc = "write"
  /\ Answer(loop, MoviesResp(loop.movies))
  /\ loop' = IdleReq
  /\ UNCHANGED <<now, ticks, fellBack, entries, interactions, waiting>>

\* cache_ref.set(...) raises: nothing catches it.
WriteFails ==
  /\ loop.pc = "write"
  /\ Answer(loop, UnhandledResp)
  /\ loop' = IdleReq
  /\ UNCHANGED <<now, ticks, fellBack, entries, interactions, waiting>>

(* ------------------------------ POST /track ---------------------------- *)
\* PushKey handing out the first key again.
PushKeyFirst(log) == 1

\* The key the store generates for a new record: push keys sort in order of
\* creation, so it is the one after the keys of all records.
PushKey(log) == Cardinality(DOMAIN log) + 1

\* Push writing the record in place of the collection (set() for push()).
PushAlone(log, k, data) == [x \in {k} |-> data]

\* The two records hold the same user_id, event_type, event_data and
\* timestamp (lines 151-154).
SamePayload(a, b) ==
  /\ a.user_id = b.user_id
  /\ a.event_type = b.event_type
  /\ a.event_data = b.event_data
  /\ a.timestamp = b.timestamp

\* Push leaving the log as it is when it holds a record of the same payload.
PushOnce(log, k, data) ==
  IF \E x \in DOMAIN log : SamePayload(log[x], data)
    THEN log
    ELSE [x \in DOMAIN log \cup {k} |-> IF x = k THEN data ELSE log[x]]

\* interactions_ref.push(data): the store adds the record under the new key.
Push(log, k, data) == [x \in DOMAIN log \cup {k} |-> IF x = k THEN data ELSE log[x]]

\* The framework validates the body against InteractionEvent before it calls
\* the handler: a body that does not validate is answered 422 and
\* track_interaction never runs.
RejectTrack(rq) ==
  /\ loop.pc = "idle"
  /\ rq.pc = "arrived"
  /\ rq.route = "/track"
  /\ ~Validates(rq.body)
  /\ waiting' = Without(rq)
  /\ Answer(rq, ValidationResp)
  /\ UNCHANGED <<now, ticks, fellBack, entries, interactions, loop>>

\* track_interaction, lines 144-159: interaction_data is built, with
\* created_at = datetime.now().isoformat(), and push() is called, a
\* blocking call.
StartTrack(rq) ==
  /\ loop.pc = "idle"
  /\ rq.pc = "arrived"
  /\ rq.route = "/track"
  /\ Validates(rq.body)
  /\ loop' = [rq EXCEPT !.pc = "push", !.data = InteractionData(rq.body, now)]
  /\ waiting' = Without(rq)
  /\ last' = IdleReq
  /\ UNCHANGED <<now, ticks, fellBack, entries, interactions>>

\* PushOk deleting the cache entry once the record is in the log.
PushOkInvalidates ==
  /\ loop.pc = "push"
  /\ Cardinality(DOMAIN interactions) < MaxLog
  /\ interactions' = Push(interactions, PushKey(interactions), loop.data)
  /\ entries' = <<>>
  /\ Answer([loop EXCEPT !.pushes = loop.pushes + 1], TrackedResp(PushKey(interactions)))
  /\ loop' = IdleReq
  /\ UNCHANGED <<now, ticks, fellBack, waiting>>

\* Line 159 returns the new reference; lines 161-165 answer with its key.
PushOk ==
  /\ loop.pc = "push"
  /\ Cardinality(DOMAIN interactions) < MaxLog
  /\ interactions' = Push(interactions, PushKey(interactions), loop.data)
  /\ Answer([loop EXCEPT !.pushes = loop.pushes + 1], TrackedResp(PushKey(interactions)))
  /\ loop' = IdleReq
  /\ UNCHANGED <<now, ticks, fellBack, entries, waiting>>

\* PushFails calling push() a second time, which lands.
PushFailsRetried(e) ==
  /\ loop.pc = "push"
  /\ interactions' = Push(interactions, PushKey(interactions), loop.data)
  /\ Answer([loop EXCEPT !.error = e, !.pushes = loop.pushes + 1],
            TrackedResp(PushKey(interactions)))
  /\ loop' = IdleReq
  /\ UNCHANGED <<now, ticks, fellBack, entries, waiting>>

\* Line 159 raises; lines 166-170 turn it into HTTPException(500).
PushFails(e) ==
  /\ loop.pc = "push"
  /\ Answer([loop EXCEPT !.error = e], TrackErrorResp(e))
  /\ loop' = IdleReq
  /\ UNCHANGED <<now, ticks, fellBack, entries, interactions, waiting>>

(* --------------------------- GET / and /health ------------------------- *)
\* read_root and health_check are plain functions: the event loop hands
\* them to a worker thread.
Dispatch(rq) ==
  /\ loop.pc = "idle"
  /\ rq.pc = "arrived"
  /\ rq.route \in {"/", "/health"}
  /\ waiting' = With(Without(rq), [rq EXCEPT !.pc = "thread"])
  /\ last' = IdleReq
  /\ UNCHANGED <<now, ticks, fellBack, entries, interactions, loop>>

\* health_check, lines 125-130, on its worker thread.
HealthCheck(rq) ==
  /\ rq.pc = "thread"
  /\ rq.route = "/health"
  /\ waiting' = With(Without(rq), [rq EXCEPT !.pc = "reply", !.resp = HealthResp(isoformat(now))])
  /\ last' = IdleReq
  /\ UNCHANGED <<now, ticks, fellBack, entries, interactions, loop>>

\* read_root, lines 118-123, on its worker thread.
ReadRoot(rq) ==
  /\ rq.pc = "thread"
  /\ rq.route = "/"
  /\ waiting' = With(Without(rq), [rq EXCEPT !.pc = "reply", !.resp = RootResp])
  /\ last' = IdleReq
  /\ UNCHANGED <<now, ticks, fellBack, entries, interactions, loop>>

\* The event loop sends the worker thread's result.
Reply(rq) ==
  /\ loop.pc = "idle"
  /\ rq.pc = "reply"
  /\ waiting' = Without(rq)
  /\ Answer(rq, rq.resp)
  /\ UNCHANGED <<now, ticks, fellBack, entries, interactions, loop>>

(* ---------------------------------------------------------------------- *)
(* Specification                                                           *)
(* ---------------------------------------------------------------------- *)
Clock ==
  \/ \E d \in ClockSteps : Tick(d)
  \/ FallBack

\* A request lasts far less than a clock step: with requests overlapping,
\* the clock steps forward between them only.
QuietClock ==
  \/ InFlight = 0 /\ \E d \in ClockSteps : Tick(d)
  \/ FallBack

Trending ==
  \/ \E rq \in Waiting : StartTrending(rq)
  \/ ReadCache
  \/ ReadFails
  \/ \E results \in FetchResults : FetchOk(results)
  \/ \E e \in UpstreamErrors : FetchFails(e)
  \/ WriteCache
  \/ WriteFails

Track ==
  \/ \E rq \in Waiting : RejectTrack(rq)
  \/ \E rq \in Waiting : StartTrack(rq)
  \/ PushOk
  \/ \E e \in StoreErrors : PushFails(e)

Sync ==
  \/ \E rq \in Waiting : Dispatch(rq)
  \/ \E rq \in Waiting : HealthCheck(rq)
  \/ \E rq \in Waiting : ReadRoot(rq)
  \/ \E rq \in Waiting : Reply(rq)

\* Clients call any route, with up to MaxReqs requests in flight.
Next ==
  \/ QuietClock
  \/ \E route \in Routes \ {"/track"} : Arrive(route, NoBody)
  \/ \E body \in Bodies : Arrive("/track", body)
  \/ Trending
  \/ Track
  \/ Sync

Spec == Init /\ [][Next]_vars

\* Clients call any route, one request after the other; the clock steps at
\* any point of a request.
NextSerial ==
  \/ Clock
  \/ InFlight = 0 /\ \E route \in Routes \ {"/track"} : Arrive(route, NoBody)
  \/ InFlight = 0 /\ \E body \in Bodies : Arrive("/track", body)
  \/ Trending
  \/ Track
  \/ Sync

SpecSerial == Init /\ [][NextSerial]_vars

\* Clients call the routes that read the cache, with up to MaxReqs requests
\* in flight.
NextCache ==
  \/ QuietClock
  \/ \E route \in Routes \ {"/track"} : Arrive(route, NoBody)
  \/ Trending
  \/ Sync

SpecCache == Init /\ [][NextCache]_vars

\* The store outlives the server: cache_ref.get() (line 100) returns whatever
\* document is at the path, written by this code or not. A document without
\* its timestamp, and a fresh one without its movies.
StoredDocs ==
  { NoDoc,
    [exists |-> TRUE, has_movies |-> TRUE, movies |-> <<"m1">>, timestamp |-> NoStamp],
    [exists |-> TRUE, has_movies |-> TRUE, movies |-> <<"m2", "m1">>, timestamp |-> NoStamp],
    [exists |-> TRUE, has_movies |-> FALSE, movies |-> <<>>, timestamp |-> isoformat(StartTime)] }

\* The server starts on a store that holds one of StoredDocs.
InitStored ==
  /\ now = StartTime
  /\ ticks = 0
  /\ fellBack = FALSE
  /\ \E doc \in StoredDocs :
       entries = IF doc.exists THEN SetAt(<<>>, CachePath, doc) ELSE <<>>
  /\ interactions = <<>>
  /\ loop = IdleReq
  /\ waiting = EmptyBag
  /\ last = IdleReq

\* Clients call GET /trending-movies, one request after the other.
NextStored ==
  \/ Clock
  \/ InFlight = 0 /\ Arrive("/trending-movies", NoBody)
  \/ Trending

SpecStored == InitStored /\ [][NextStored]_vars

(* ---------------------------------------------------------------------- *)
(* Properties of GET /trending-movies                                      *)
(* ---------------------------------------------------------------------- *)
\* The last step answered a request to `route`.
Answered(route) == last.pc = "done" /\ last.route = route

\* The answered request read a document that carries a timestamp.
ReadStamped ==
  /\ Answered("/trending-movies")
  /\ last.cache_doc.exists
  /\ last.cache_doc.timestamp # NoStamp

\* The age of the document the answered request read, when it was checked.
ReadAge == last.checked - fromisoformat(last.cache_doc.timestamp)

\* The answered request was served the document it read.
ServedFromCache ==
  /\ last.resp.status = 200
  /\ last.resp.kind = "movies"
  /\ last.resp.movies = last.cache_doc.movies
  /\ last.fetches = 0

\* C1: a GET /trending-movies that reads the entry a refresh stored while
\* the entry's age is inside the freshness window returns exactly the stored
\* movie list, does not invoke fetch_trending_movies and does not write the
\* cache entry.
C1_FreshReadIsCacheHit ==
  (ReadStamped /\ ReadAge < CACHE_DURATION)
    => /\ ServedFromCache
       /\ last.writes = 0
       /\ cache = last.cache_doc

\* A request answered from an entry half a freshness window old.
C1_Witness ==
  /\ ReadStamped
  /\ ReadAge = CACHE_DURATION \div 2
  /\ last.resp.movies = <<"m2", "m1">>
  /\ last.fetches = 0

\* C2 as claimed: an entry no older than the freshness window, the age of
\* exactly CACHE_DURATION seconds included, is served from the cache without
\* contacting the external client.
C2_ServedUpToWindow ==
  (ReadStamped /\ ReadAge <= CACHE_DURATION) => ServedFromCache

\* C2, amended: an entry younger than CACHE_DURATION seconds is served from
\* the cache without contacting the external client; an entry whose age is
\* exactly CACHE_DURATION seconds, or more, is not served: the external
\* client is contacted.
C2_ServedBelowWindowOnly ==
  ReadStamped
    => /\ ReadAge < CACHE_DURATION => ServedFromCache
       /\ ReadAge >= CACHE_DURATION => (last.fetches = 1 /\ ~ServedFromCache)

\* A request that read an entry exactly CACHE_DURATION seconds old and
\* contacted the external client.
C2_Witness ==
  /\ ReadStamped
  /\ ReadAge = CACHE_DURATION
  /\ last.fetches = 1

\* The answered request read no fresh entry, and fetch_trending_movies
\* returned a list to it.
FetchedOnMiss ==
  /\ Answered("/trending-movies")
  /\ ~(last.cache_doc.exists /\ last.cache_doc.timestamp # NoStamp
         /\ ReadAge < CACHE_DURATION)
  /\ last.stamp # NoStamp

\* One refresh cycle: one fetch, the entry overwritten in full with the
\* fetched list and a timestamp not older than the old one, the fetched
\* list returned.
OneRefreshCycle ==
  /\ last.fetches = 1
  /\ cache.exists
  /\ cache.has_movies
  /\ cache.movies = last.movies
  /\ cache.timestamp = last.stamp
  /\ (last.before.exists /\ last.before.timestamp # NoStamp)
       => fromisoformat(cache.timestamp) >= fromisoformat(last.before.timestamp)
  /\ last.resp.status = 200
  /\ last.resp.kind = "movies"
  /\ last.resp.movies = last.movies

C4_FetchFailureWritesNothing ==
  (Answered("/trending-movies") /\ last.error # "")
    => /\ last.resp.status = 500
       /\ last.resp.detail = <<"Error fetching TMDB data: ", last.error>>
       /\ last.writes = 0
       /\ cache = last.before

\* A failed fetch that left a stale entry with its movies and timestamp.
C4_Witness ==
  /\ Answered("/trending-movies")
  /\ last.error # ""
  /\ last.before.exists
  /\ last.before.movies # <<>>
  /\ cache = last.before

\* C7: a fetch failure on a stale entry is answered with an error: the stale
\* movie list is never returned in its place.
C7_NoStaleFallback ==
  (Answered("/trending-movies") /\ last.error # "" /\ last.cache_doc.exists)
    => /\ last.resp.status >= 500
       /\ last.resp.kind # "movies"
       /\ last.resp.movies = <<>>

\* A failed fetch on a stale entry that holds movies.
C7_Witness ==
  /\ Answered("/trending-movies")
  /\ last.error # ""
  /\ ReadStamped
  /\ ReadAge >= CACHE_DURATION
  /\ last.cache_doc.movies # <<>>
  /\ last.resp.status = 500

(* ---------------------------------------------------------------------- *)
(* Properties of the event loop                                            *)
(* ---------------------------------------------------------------------- *)
\* A GET /trending-movies has read a stale or absent entry and has not yet
\* written the cache.
MidRefresh == loop.route = "/trending-movies" /\ loop.pc \in {"fetch", "write"}

\* C5: two GET /trending-movies requests that arrive while the entry is
\* stale can interleave: while one of them is between its read of the stale
\* entry and its write, the handler of the other can start and read the
\* same stale entry.
C5_StaleReadsInterleave ==
  \A rq \in Waiting :
    (MidRefresh /\ rq.pc = "arrived" /\ rq.route = "/trending-movies")
      => ENABLED StartTrending(rq)

\* C6: a GET /trending-movies handler waiting on its fetch or its store
\* write does not block other requests: a GET /health or POST /track that
\* has arrived can start while the handler is between its cache read and
\* its cache write.
C6_OthersStartDuringRefresh ==
  \A rq \in Waiting :
    (MidRefresh /\ rq.pc = "arrived" /\ rq.route \in {"/health", "/track"})
      => ENABLED (Dispatch(rq) \/ StartTrack(rq) \/ RejectTrack(rq))

(* ---------------------------------------------------------------------- *)
(* Properties of POST /track and the interaction log                       *)
(* ---------------------------------------------------------------------- *)
\* This step answers a POST /track with success.
TrackedStep == last'.pc = "done" /\ last'.route = "/track" /\ last'.resp.status = 200

\* This step adds exactly one record, under the key it returns, a key no
\* record had; the records there were stay as they were.
AppendsUnderNewKey ==
  /\ last'.resp.key \notin DOMAIN interactions
  /\ DOMAIN interactions' = DOMAIN interactions \cup {last'.resp.key}
  /\ \A k \in DOMAIN interactions : interactions'[k] = interactions[k]

\* C8 as claimed: a successful POST /track appends exactly one record under
\* a generated key that no record had, and returns the key; the record under
\* that key has the user_id, event_type, event_data.movie_id and timestamp
\* of the submitted payload, and a created_at no earlier than the arrival of
\* the request.
C8_TrackRoundTrip ==
  [][TrackedStep =>
       /\ AppendsUnderNewKey
       /\ LET rec == interactions'[last'.resp.key]
          IN /\ JStr(rec.user_id) = last'.body.user_id
             /\ JStr(rec.event_type) = last'.body.event_type
             /\ JInt(rec.event_data.movie_id) = last'.body.movie_id
             /\ JStr(rec.timestamp) = last'.body.timestamp
             /\ fromisoformat(rec.created_at) >= last'.arrived]_vars

\* C8, amended: a successful POST /track appends exactly one record under a
\* generated key that no record had, and returns the key; the record under
\* that key has the user_id, event_type and timestamp of the submitted
\* payload and its movie_id as an integer (a string of digits is stored as
\* the number it spells), and a created_at that is no earlier than the
\* arrival of the request unless the wall clock was set back meanwhile.
C8_TrackRoundTripCoerced ==
  [][TrackedStep =>
       /\ AppendsUnderNewKey
       /\ LET rec == interactions'[last'.resp.key]
              sent == last'.body.movie_id
          IN /\ JStr(rec.user_id) = last'.body.user_id
             /\ JStr(rec.event_type) = last'.body.event_type
             /\ sent.type = "int" => rec.event_data.movie_id = sent.n
             /\ sent.type = "str" => rec.event_data.movie_id = ParseInt(sent.s)
             /\ JStr(rec.timestamp) = last'.body.timestamp
             /\ ~last'.set_back => fromisoformat(rec.created_at) >= last'.arrived]_vars

\* A second record, tracked from a payload whose movie_id is the string
\* "12", stored with movie_id 12 under a key of its own.
C8_Witness ==
  /\ Answered("/track")
  /\ last.resp.status = 200
  /\ last.resp.key \in DOMAIN interactions
  /\ Cardinality(DOMAIN interactions) = 2
  /\ last.body.movie_id = JStr(<<"1", "2">>)
  /\ interactions[last.resp.key].event_data.movie_id = 12

\* The body lacks a field, or holds a movie_id that is no integer and no
\* string of digits.
Malformed(body) ==
  \/ body.user_id.type # "str"
  \/ body.event_type.type # "str"
  \/ body.timestamp.type # "str"
  \/ body.movie_id.type = "missing"
  \/ (body.movie_id.type = "str"
        /\ \E i \in 1..Len(body.movie_id.s) :
             body.movie_id.s[i] \notin {"0", "1", "2", "3", "4", "5", "6", "7", "8", "9"})

C10_AppendOnly ==
  [][/\ \A k \in DOMAIN interactions :
          k \in DOMAIN interactions' /\ interactions'[k] = interactions[k]
     /\ interactions' # interactions => TrackedStep
     /\ TrackedStep =>
          Cardinality(DOMAIN interactions') = Cardinality(DOMAIN interactions) + 1]_vars

\* A second record appended to the log, the first one still in it.
C10_Witness ==
  /\ Answered("/track")
  /\ last.resp.status = 200
  /\ DOMAIN interactions = {1, 2}
  /\ last.resp.key = 2
  /\ fromisoformat(interactions[1].created_at) > fromisoformat(interactions[2].created_at)

(* ---------------------------------------------------------------------- *)
(* Properties of POST /track, continued                                    *)
(* ---------------------------------------------------------------------- *)
\* C11: POST /track is not idempotent: a successful request whose payload
\* is that of a record already in the log still appends a record of its
\* own, under a generated key different from that record's key; nothing is
\* deduplicated.
C11_TrackNotIdempotent ==
  [][\A k \in DOMAIN interactions :
       (TrackedStep /\ SamePayload(interactions[k], last'.data))
         => /\ last'.resp.key # k
            /\ last'.resp.key \in DOMAIN interactions'
            /\ k \in DOMAIN interactions'
            /\ SamePayload(interactions'[last'.resp.key], interactions'[k])
            /\ Cardinality(DOMAIN interactions') = Cardinality(DOMAIN interactions) + 1]_vars

\* The same body tracked twice with no clock step between: two records
\* equal in every field, under keys 1 and 2.
C11_Witness ==
  /\ Answered("/track")
  /\ last.resp.status = 200
  /\ last.resp.key = 2
  /\ DOMAIN interactions = {1, 2}
  /\ interactions[1] = interactions[2]
  /\ JInt(interactions[1].event_data.movie_id) = last.body.movie_id

(* ---------------------------------------------------------------------- *)
(* Properties of the cache entry                                           *)
(* ---------------------------------------------------------------------- *)
\* C12: in every reachable state the cache holds at most one entry, at the
\* path cache/trending_movies; a refresh replaces the entry in place: after
\* it the one path holds the document of the refresh, and no sequence of
\* requests leaves a second, versioned or appended entry.
C12_OneCacheEntry ==
  /\ DOMAIN entries \subseteq {CachePath}
  /\ Cardinality(DOMAIN entries) <= 1
  /\ (Answered("/trending-movies") /\ last.writes = 1)
       => /\ DOMAIN entries = {CachePath}
          /\ entries[CachePath] = CacheDoc(last.movies, last.stamp)

\* A refresh that found an entry and left one entry, with another list.
C12_Witness ==
  /\ Answered("/trending-movies")
  /\ last.writes = 1
  /\ last.before.exists
  /\ last.before.movies # last.movies
  /\ DOMAIN entries = {CachePath}
  /\ cache.movies = last.movies

\* The answered request read a document that carries no timestamp.
ReadUnstamped ==
  /\ Answered("/trending-movies")
  /\ last.cache_doc.exists
  /\ last.cache_doc.timestamp = NoStamp

\* C13: a cache entry that exists but has no timestamp is treated as stale,
\* whatever movies it holds: the request that reads it is never served the
\* stored list, it invokes fetch_trending_movies, and the fetched list goes
\* to the write that overwrites the entry with that list and a new
\* timestamp.
C13_UnstampedIsStale ==
  ReadUnstamped =>
    /\ last.fetches = 1
    /\ last.resp.status = 200 =>
         /\ last.writes = 1
         /\ last.resp.movies = last.movies
    /\ last.writes = 1 =>
         /\ cache = CacheDoc(last.movies, last.stamp)
         /\ cache.timestamp # NoStamp
    /\ (last.stamp # NoStamp /\ last.writes = 0) => last.resp = UnhandledResp

\* An entry holding two movies and no timestamp, read and overwritten with
\* the one movie that was fetched.
C13_Witness ==
  /\ ReadUnstamped
  /\ last.cache_doc.movies = <<"m2", "m1">>
  /\ last.before = last.cache_doc
  /\ last.fetches = 1
  /\ last.writes = 1
  /\ cache = CacheDoc(<<"m1">>, last.stamp)

(* ---------------------------------------------------------------------- *)
(* Failures of the store                                                   *)
(* ---------------------------------------------------------------------- *)
\* C14: a storage failure during POST /track is answered 500 with a detail
\* that carries the text of the underlying error; the failed push() is not
\* retried: it is the last call of the handler, no push of the request has
\* landed, and the log is left as it was, without a record for the request.
C14_TrackStoreFailureIs500 ==
  [][(last'.pc = "done" /\ last'.route = "/track" /\ last'.error # "")
       => /\ last'.resp.status = 500
          /\ last'.resp.kind = "detail"
          /\ last'.resp.detail = <<"Error tracking interaction: ", last'.error>>
          /\ last'.error \in StoreErrors
          /\ loop.pc = "push"
          /\ loop' = IdleReq
          /\ last'.pushes = 0
          /\ interactions' = interactions]_vars

\* A valid body, answered 500 because the store failed, with the log still
\* holding only the record of an earlier request.
C14_Witness ==
  /\ Answered("/track")
  /\ Validates(last.body)
  /\ last.error = "store unavailable"
  /\ last.resp.status = 500
  /\ last.resp.detail[2] = "store unavailable"
  /\ DOMAIN interactions = {1}

(* ---------------------------------------------------------------------- *)
(* Properties of GET /health                                               *)
(* ---------------------------------------------------------------------- *)
\* C15: GET /health answers 200 with status "healthy" and the server's
\* wall clock as read when health_check runs, sent as health_check built
\* it, whatever the cache and the log hold and whatever the upstream and the
\* store have just done; no step of the request changes the cache entry or
\* the log.
C15_HealthAlwaysHealthy ==
  [][/\ \A rq \in Waiting :
          (rq.route = "/health" /\ rq \notin BagToSet(waiting'))
            => /\ cache' = cache
               /\ entries' = entries
               /\ interactions' = interactions
     /\ \A rq \in BagToSet(waiting') :
          (rq.route = "/health" /\ rq.pc = "reply" /\ rq \notin Waiting /\ now' = now)
            => /\ rq.resp.status = 200
               /\ rq.resp.detail = <<"healthy">>
               /\ rq.resp.timestamp = isoformat(now)
               /\ fromisoformat(rq.resp.timestamp) = now
     /\ (last'.pc = "done" /\ last'.route = "/health")
          => /\ last'.resp.status = 200
             /\ last'.resp.kind = "health"
             /\ last'.resp.detail = <<"healthy">>
             /\ last'.resp.timestamp # NoStamp
             /\ last'.resp \in {rq.resp : rq \in Waiting}]_vars

\* A health check answered with a timestamp later than the start of the
\* server, with an entry in the cache and a record in the log.
C15_Witness ==
  /\ Answered("/health")
  /\ last.resp.detail = <<"healthy">>
  /\ fromisoformat(last.resp.timestamp) > StartTime
  /\ fromisoformat(last.resp.timestamp) = now
  /\ cache.exists
  /\ DOMAIN interactions # {}

\* C16: the movies and the timestamp of the cache entry come from the same
\* refresh, however the requests in flight interleave: the entry changes
\* only by the write of one refresh, a single step that replaces it whole
\* with the list that refresh fetched and the timestamp that refresh took
\* when its fetch returned.
C16_EntryFromOneRefresh ==
  [][/\ cache' # cache
          => /\ loop.route = "/trending-movies"
             /\ loop.pc = "write"
             /\ last'.pc = "done"
             /\ last'.arrived = loop.arrived
             /\ last'.writes = 1
             /\ cache' = CacheDoc(loop.movies, loop.stamp)
             /\ loop.stamp # NoStamp
     /\ (loop.pc = "fetch" /\ loop'.pc = "write")
          => /\ loop'.stamp = isoformat(now)
             /\ loop'.stamp # NoStamp
             /\ loop'.fetches = 1
     /\ (loop.pc = "write" /\ loop'.pc = "write")
          => /\ loop'.movies = loop.movies
             /\ loop'.stamp = loop.stamp]_vars

\* Two requests found the entry stale; the first has replaced it, list and
\* timestamp, while the second waits for the event loop.
C16_Witness ==
  /\ Answered("/trending-movies")
  /\ last.writes = 1
  /\ last.before.exists
  /\ last.before.movies # last.movies
  /\ last.before.timestamp # last.stamp
  /\ cache = CacheDoc(last.movies, last.stamp)
  /\ \E rq \in Waiting : rq.route = "/trending-movies" /\ rq.pc = "arrived"

\* The answered request fetched the list and its cache write failed.
WriteFailed ==
  /\ Answered("/trending-movies")
  /\ last.stamp # NoStamp
  /\ last.fetches = 1
  /\ last.writes = 0

\* C17: when the cache write fails after the fetch succeeded, the request
\* is answered with an error and not with the fetched list, and the cache
\* entry keeps the content it had; no failure is remembered: any request
\* that reads an entry that is absent or not fresh, the next one on the
\* still-stale entry included, invokes the external client again.
C17_WriteFailureFailsRequest ==
  /\ WriteFailed
       => /\ last.resp.status = 500
          /\ last.resp.kind # "movies"
          /\ last.resp.movies = <<>>
          /\ cache = last.before
          /\ cache = last.cache_doc
  /\ (Answered("/trending-movies") /\ last.checked > 0
        /\ ~IsFresh(last.cache_doc, last.checked))
       => last.fetches = 1

\* A stale entry whose refresh fetched another list and failed to write
\* it: the request is answered 500 and the entry is as it was.
C17_Witness ==
  /\ WriteFailed
  /\ last.resp.status = 500
  /\ last.before.exists
  /\ last.movies # last.before.movies
  /\ cache = last.before
  /\ ~IsFresh(cache, now)

(* ---------------------------------------------------------------------- *)
(* The cache and the log                                                   *)
(* ---------------------------------------------------------------------- *)
\* This step is one of a request to `route`: the request starts, goes on,
\* or is answered.
StepOf(route) ==
  \/ loop.route = route /\ loop.pc # "idle"
  \/ loop'.route = route /\ loop'.pc # "idle"
  \/ last'.route = route /\ last'.pc = "done"

\* C18: the two stores are independent: no step of a POST /track, accepted,
\* rejected or failed, changes the cache entry, and no step of a GET
\* /trending-movies, hit, refresh or failure, changes the interaction log;
\* the cache changes in steps of GET /trending-movies only and the log in
\* steps of POST /track only.
C18_StoresIndependent ==
  [][/\ StepOf("/track") => (entries' = entries /\ cache' = cache)
     /\ StepOf("/trending-movies") => interactions' = interactions
     /\ entries' # entries => StepOf("/trending-movies")
     /\ interactions' # interactions => StepOf("/track")]_vars

\* A record tracked with an entry in the cache, the entry being the one a
\* refresh wrote before.
C18_Witness ==
  /\ Answered("/track")
  /\ last.resp.status = 200
  /\ last.resp.key \in DOMAIN interactions
  /\ cache.exists
  /\ cache.movies = <<"m2", "m1">>
  /\ fromisoformat(cache.timestamp) < fromisoformat(last.data.created_at)

(* ---------------------------------------------------------------------- *)
(* Freshness at the edges                                                  *)
(* ---------------------------------------------------------------------- *)
\* C19: a cache entry whose timestamp lies ahead of the clock (a negative
\* age, as after the clock was set back) is treated as fresh: the request
\* is served the stored list, without a fetch and without a write; and the
\* entry goes on being served until the clock has passed its timestamp by
\* the full freshness window: a request that read a stamped entry fetched
\* only if the clock stood CACHE_DURATION or more past the timestamp.
C19_FutureStampIsFresh ==
  ReadStamped =>
    /\ ReadAge < 0 =>
         /\ ServedFromCache
         /\ last.resp.movies = DocMovies(last.cache_doc)
         /\ last.writes = 0
         /\ cache = last.cache_doc
    /\ last.fetches > 0 =>
         last.checked >= fromisoformat(last.cache_doc.timestamp) + CACHE_DURATION
    /\ last.checked < fromisoformat(last.cache_doc.timestamp) + CACHE_DURATION =>
         last.fetches = 0

\* The clock set back after a refresh: the entry, stamped BackStep ahead of
\* the clock, is served.
C19_Witness ==
  /\ ReadStamped
  /\ fellBack
  /\ ReadAge < 0
  /\ ReadAge = 0 - BackStep
  /\ ServedFromCache
  /\ last.resp.movies = cache.movies

\* C20: an empty list from the upstream is cached like any other result,
\* with the timestamp taken when the fetch returned; a request that reads,
\* inside the freshness window, an entry whose list is empty is answered 200
\* with the empty list and invokes no fetch; the same holds of a fresh entry
\* that has no movies field at all.
C20_EmptyListIsCached ==
  /\ (Answered("/trending-movies") /\ last.fetches = 1 /\ last.stamp # NoStamp
        /\ last.movies = <<>> /\ last.writes = 1)
       => /\ cache = CacheDoc(<<>>, last.stamp)
          /\ cache.has_movies
          /\ last.resp = MoviesResp(<<>>)
          /\ ~last.set_back => fromisoformat(cache.timestamp) >= last.checked
  /\ (ReadStamped /\ ReadAge < CACHE_DURATION /\ DocMovies(last.cache_doc) = <<>>)
       => /\ last.resp = MoviesResp(<<>>)
          /\ last.fetches = 0
          /\ last.writes = 0
          /\ cache = last.cache_doc

\* An empty list that a refresh cached, served from the cache half a window
\* later.
C20_Witness ==
  /\ ReadStamped
  /\ last.cache_doc.has_movies
  /\ last.cache_doc.movies = <<>>
  /\ ReadAge = CACHE_DURATION \div 2
  /\ last.resp = MoviesResp(<<>>)
  /\ last.fetches = 0
  /\ cache = last.cache_doc

====
